---- MODULE Spec2Model ----
(***************************************************************************)
(* Model of src/Sim.py: JeopardySimulator.                                 *)
(*                                                                         *)
(* Money is in whole dollars (the form hands over integers, Sim.py:240-243)*)
(* Probabilities are in percent (the sliders, Sim.py:248-252).             *)
(* A win rate wins/total_sims is represented by its numerator wins; an     *)
(* average of num_simulations win rates by the sum of their numerators     *)
(* (numerator over num_simulations * total_sims).                          *)
(* random.random() < p is modelled by its possible outcomes: only TRUE     *)
(* when p = 100, only FALSE when p = 0, both otherwise.                    *)
(***************************************************************************)
EXTENDS Integers, Sequences, FiniteSets, TLC

VARIABLES
    pc,                 \* position of the running call
    gs,                 \* GameState
    wg_args, wg_ret,    \* get_strategic_wagers: arguments and returned list
    player, opp1, opp2, \* running totals (simulate_game / callee locals)
    clue_in, remaining, clue_out,   \* simulate_remaining_clues
    money_positions, positions, player_wagers, wager_idx,
    trial, wins, best_win_rate, best_wager, win_rates,
    opp1_wagers, opp2_wagers, fj_results,   \* simulate_final_jeopardy
    max_bet, bet_idx, dd_bet, sim_results, results,
    best_combined_rate, optimal_bet, report  \* run_simulations

vars == <<pc, gs, wg_args, wg_ret, player, opp1, opp2, clue_in, remaining,
          clue_out, money_positions, positions, player_wagers, wager_idx,
          trial, wins, best_win_rate, best_wager, win_rates, opp1_wagers,
          opp2_wagers, fj_results, max_bet, bet_idx, dd_bet, sim_results,
          results, best_combined_rate, optimal_bet, report>>

\* a variable of a call that is not running holds the empty value of its type
None == "none"
NoTotals == [player |-> 0, opp1 |-> 0, opp2 |-> 0]
NoFJResults == [optimal_fj_wager |-> 0, fj_win_rate |-> 0]
NoReport == [optimal_bet |-> 0, best_win_rate |-> 0, detailed_results |-> << >>]

----------------------------------------------------------------------------
(* Bounds of the model *)

\* num_simulations (constructor parameter, Sim.py:24), scaled down
NumSims == 2
\* total_sims = 100 (Sim.py:106), scaled down
TotalSims == 2
\* get_strategic_wagers is tried on every total in 0 .. MaxMoney
MaxMoney == 4
\* simulate_remaining_clues is tried on the remaining values
\* 0, 50, .. , 50 * MaxRemainingSteps
MaxRemainingSteps == 10

----------------------------------------------------------------------------
(* Helpers *)

\* int(x) for x = num / den: truncation toward zero
IntTrunc(num, den) ==
    IF num >= 0 THEN num \div den ELSE -((-num) \div den)

\* int(money * pct) for pct in [0.25, 0.5, 0.75], pct given in percent
PctOf(money, pct) == IntTrunc(money * pct, 100)

Pcts == {25, 50, 75}

SetMin(S) == CHOOSE x \in S : \A y \in S : x <= y

\* sorted(list(wagers)): the i-th entry is the value with i - 1 smaller ones
SortedAsc(S) ==
    [i \in 1..Cardinality(S) |->
        CHOOSE x \in S : Cardinality({y \in S : y < x}) = i - 1]

\* get_strategic_wagers with `wagers.add(0)` left out of the last branch
WagerSetThirdWithoutZero(money, position, leader_money, second_money) ==
    LET fractions == {PctOf(money, pct) : pct \in Pcts}
        second_double == second_money * 2
        min_to_win == leader_money - money + 1
    IN  IF position = "leader"
        THEN {0, money}
             \cup {IF second_double > money THEN money
                   ELSE second_double - money + 1}
             \cup fractions
        ELSE IF position = "second"
        THEN {money, 0}
             \cup (IF min_to_win <= money THEN {min_to_win} ELSE {})
             \cup fractions
        ELSE {money} \cup fractions

\* the set `wagers` built by get_strategic_wagers before it is sorted
WagerSet(money, position, leader_money, second_money) ==
    LET fractions == {PctOf(money, pct) : pct \in Pcts}
        second_double == second_money * 2
        min_to_win == leader_money - money + 1
    IN  IF position = "leader"
        THEN {0, money}
             \cup {IF second_double > money THEN money
                   ELSE second_double - money + 1}
             \cup fractions
        ELSE IF position = "second"
        THEN {money, 0}
             \cup (IF min_to_win <= money THEN {min_to_win} ELSE {})
             \cup fractions
        ELSE {money, 0} \cup fractions

get_strategic_wagers(money, position, leader_money, second_money) ==
    SortedAsc(WagerSet(money, position, leader_money, second_money))

Range(s) == {s[i] : i \in DOMAIN s}

Max(a, b) == IF a >= b THEN a ELSE b

RECURSIVE SumSeq(_)
SumSeq(s) == IF s = <<>> THEN 0 ELSE Head(s) + SumSeq(Tail(s))

\* the outcomes of `random.random() < p`, p in percent
Draw(p) == IF p >= 100 THEN {TRUE} ELSE IF p <= 0 THEN {FALSE} ELSE {TRUE, FALSE}

----------------------------------------------------------------------------
(* simulate_remaining_clues *)

\* self.clue_values = list(range(200, 2001, 100))
clue_values == {200 + 100 * k : k \in 0..18}

\* the clue values without the restriction to those <= remaining
possible_values_unrestricted(rem) == clue_values

possible_values(rem) == {v \in clue_values : v <= rem}

\* the loop without its `break`
CluesContinueWithoutBreak(rem) == rem > 0

\* the loop goes on: `while remaining > 0` and no `break`
CluesContinue(rem) == rem > 0 /\ possible_values(rem) # {}

\* who can be awarded a clue: r < p, r < p + (1 - p) / 2, else
ClueWinners(p) ==
    (IF p > 0 THEN {"player"} ELSE {})
    \cup (IF p < 100 THEN {"opp1", "opp2"} ELSE {})

CluesIdle == clue_in = NoTotals /\ remaining = 0 /\ clue_out = NoTotals

\* Sim.py:66-71: the arguments become the running totals
CluesEnter ==
    /\ pc = "clues_call"
    /\ player' = clue_in.player
    /\ opp1' = clue_in.opp1
    /\ opp2' = clue_in.opp2
    /\ remaining' = gs.remaining_value
    /\ pc' = "clues"
    /\ UNCHANGED <<gs, wg_args, wg_ret, clue_in, clue_out,
                   money_positions, positions, player_wagers, wager_idx,
                   trial, wins, best_win_rate, best_wager, win_rates,
                   opp1_wagers, opp2_wagers, fj_results, max_bet, bet_idx,
                   dd_bet, sim_results, results, best_combined_rate,
                   optimal_bet, report>>

\* Sim.py:73-87: one iteration of the while loop
ClueStep ==
    /\ pc = "clues"
    /\ CluesContinue(remaining)
    /\ \E value \in possible_values(remaining) :
       \E who \in ClueWinners(gs.player_clue_probability) :
          /\ remaining' = remaining - value
          /\ player' = IF who = "player" THEN player + value ELSE player
          /\ opp1' = IF who = "opp1" THEN opp1 + value ELSE opp1
          /\ opp2' = IF who = "opp2" THEN opp2 + value ELSE opp2
    /\ UNCHANGED <<pc, gs, wg_args, wg_ret, clue_in, clue_out,
                   money_positions, positions, player_wagers, wager_idx,
                   trial, wins, best_win_rate, best_wager, win_rates,
                   opp1_wagers, opp2_wagers, fj_results, max_bet, bet_idx,
                   dd_bet, sim_results, results, best_combined_rate,
                   optimal_bet, report>>

\* the loop ends; return {'player': player, 'opp1': opp1, 'opp2': opp2}
CluesReturn ==
    /\ pc = "clues"
    /\ ~CluesContinue(remaining)
    /\ clue_out' = [player |-> player, opp1 |-> opp1, opp2 |-> opp2]
    /\ pc' = "clues_ret"
    /\ UNCHANGED <<gs, wg_args, wg_ret, player, opp1, opp2, clue_in,
                   remaining, money_positions, positions, player_wagers,
                   wager_idx, trial, wins, best_win_rate, best_wager,
                   win_rates, opp1_wagers, opp2_wagers, fj_results, max_bet,
                   bet_idx, dd_bet, sim_results, results, best_combined_rate,
                   optimal_bet, report>>

----------------------------------------------------------------------------
(* simulate_final_jeopardy *)

Players == <<"player", "opp1", "opp2">>

\* an insertion that puts e before the entries with the same money
InsertDescBeforeEqual(s, e) ==
    LET k == Cardinality({i \in DOMAIN s : s[i][1] > e[1]})
    IN  SubSeq(s, 1, k) \o <<e>> \o SubSeq(s, k + 1, Len(s))

\* insert e into s, sorted by money descending, behind every entry whose
\* money is not smaller (sorted(..., reverse=True) is stable)
InsertDesc(s, e) ==
    LET k == Cardinality({i \in DOMAIN s : s[i][1] >= e[1]})
    IN  SubSeq(s, 1, k) \o <<e>> \o SubSeq(s, k + 1, Len(s))

\* sorted([(player, "player"), (opp1, "opp1"), (opp2, "opp2")],
\*        key=lambda x: x[0], reverse=True)
SortedMoneyPositions(p, o1, o2) ==
    InsertDesc(InsertDesc(InsertDesc(<<>>, <<p, "player">>), <<o1, "opp1">>),
               <<o2, "opp2">>)

\* {item[1]: pos for pos, item in enumerate(money_positions)}; pos is 0-based
PositionsOf(mp) ==
    [name \in Range(Players) |-> (CHOOSE i \in DOMAIN mp : mp[i][2] = name) - 1]

\* the wager list of the player holding `money` at rank `pos`
\* (Sim.py:97-102, 112-117, 119-124); money_positions[k][0] is mp[k+1][1]
RankedWagers(money, pos, mp) ==
    IF pos = 0 THEN get_strategic_wagers(money, "leader", money, mp[2][1])
    ELSE IF pos = 1 THEN get_strategic_wagers(money, "second", mp[1][1], money)
    ELSE get_strategic_wagers(money, "third", mp[1][1], mp[2][1])

\* x + (wager if correct else -wager)
FinalTotal(x, wager, correct) == x + (IF correct THEN wager ELSE -wager)

\* if player_final > max(opp1_final, opp2_final)
PlayerWins(player_final, opp1_final, opp2_final) ==
    player_final > Max(opp1_final, opp2_final)

\* `>=` for `>`: the last of the tied candidates is kept
BetterOrEqualRate(win_rate, best) == win_rate >= best

\* if win_rate > best_win_rate
BetterRate(win_rate, best) == win_rate > best

FJIdle ==
    /\ money_positions = <<>> /\ positions = NoTotals /\ player_wagers = <<>>
    /\ wager_idx = 0 /\ trial = 0 /\ wins = 0
    /\ best_win_rate = 0 /\ best_wager = 0 /\ win_rates = <<>>
    /\ opp1_wagers = <<>> /\ opp2_wagers = <<>> /\ fj_results = NoFJResults

\* Sim.py:93-109: ranking, the subject's wager list, the loop's start
FJEnter ==
    /\ pc = "fj_call"
    /\ LET mp == SortedMoneyPositions(player, opp1, opp2)
           pos == PositionsOf(mp)
       IN  /\ money_positions' = mp
           /\ positions' = pos
           /\ player_wagers' = RankedWagers(player, pos["player"], mp)
    /\ best_win_rate' = 0
    /\ best_wager' = 0
    /\ wager_idx' = 1
    /\ trial' = 0
    /\ wins' = 0
    /\ win_rates' = <<>>
    /\ pc' = "fj_trials"
    /\ UNCHANGED <<gs, wg_args, wg_ret, player, opp1, opp2, clue_in,
                   remaining, clue_out, opp1_wagers, opp2_wagers, fj_results,
                   max_bet, bet_idx, dd_bet, sim_results, results,
                   best_combined_rate, optimal_bet, report>>

\* Sim.py:111-131: one trial of the current candidate wager
FJTrial ==
    /\ pc = "fj_trials"
    /\ trial < TotalSims
    /\ LET w1s == RankedWagers(opp1, positions["opp1"], money_positions)
           w2s == RankedWagers(opp2, positions["opp2"], money_positions)
           player_wager == player_wagers[wager_idx]
       IN  /\ opp1_wagers' = w1s
           /\ opp2_wagers' = w2s
           /\ \E opp1_wager \in Range(w1s), opp2_wager \in Range(w2s) :
              \E c0 \in Draw(gs.fj_probability),
                 c1 \in Draw(gs.opp1_fj_probability),
                 c2 \in Draw(gs.opp2_fj_probability) :
                 wins' = IF PlayerWins(FinalTotal(player, player_wager, c0),
                                       FinalTotal(opp1, opp1_wager, c1),
                                       FinalTotal(opp2, opp2_wager, c2))
                         THEN wins + 1 ELSE wins
    /\ trial' = trial + 1
    /\ UNCHANGED <<pc, gs, wg_args, wg_ret, player, opp1, opp2, clue_in,
                   remaining, clue_out, money_positions, positions,
                   player_wagers, wager_idx, best_win_rate, best_wager,
                   win_rates, fj_results, max_bet, bet_idx, dd_bet,
                   sim_results, results, best_combined_rate, optimal_bet,
                   report>>

\* Sim.py:133-141: the candidate's win rate, the best so far, the next
\* candidate or the return
FJEndWagerCore ==
    /\ pc = "fj_trials"
    /\ trial = TotalSims
    /\ LET win_rate == wins
           better == BetterRate(win_rate, best_win_rate)
           new_rate == IF better THEN win_rate ELSE best_win_rate
           new_wager == IF better THEN player_wagers[wager_idx] ELSE best_wager
       IN  /\ best_win_rate' = new_rate
           /\ best_wager' = new_wager
           /\ IF wager_idx < Len(player_wagers)
              THEN /\ wager_idx' = wager_idx + 1
                   /\ trial' = 0
                   /\ wins' = 0
                   /\ UNCHANGED <<pc, fj_results>>
              ELSE /\ fj_results' = [optimal_fj_wager |-> new_wager,
                                     fj_win_rate |-> new_rate]
                   /\ pc' = "fj_ret"
                   /\ UNCHANGED <<wager_idx, trial, wins>>
    /\ UNCHANGED <<gs, wg_args, wg_ret, player, opp1, opp2, clue_in,
                   remaining, clue_out, money_positions, positions,
                   player_wagers, opp1_wagers, opp2_wagers, max_bet, bet_idx,
                   dd_bet, sim_results, results, best_combined_rate,
                   optimal_bet, report>>

FJEndWager == FJEndWagerCore /\ UNCHANGED win_rates

\* the same step, with the candidates' win rates kept as a history
FJEndWagerTraced == FJEndWagerCore /\ win_rates' = Append(win_rates, wins)


----------------------------------------------------------------------------
(* simulate_game *)

\* player += dd_bet / player -= dd_bet
AfterDailyDouble(money, bet, correct) ==
    IF correct THEN money + bet ELSE money - bet

\* the dict simulate_game returns (Sim.py:161-166); of its fields the batch
\* keeps the one run_simulations reads again (Sim.py:186). The pre-terminal
\* totals of the trial are player, opp1, opp2 at pc = "fj_ret".
GameResult == [fj_win_rate |-> fj_results.fj_win_rate]

----------------------------------------------------------------------------
(* run_simulations *)

\* the ceiling taken from the board alone, whatever the subject's money
MaxBetOfBoard(g) == IF g.is_double_jeopardy THEN 2000 ELSE 1000

\* max_bet (Sim.py:170)
MaxBet(g) ==
    IF g.player_money < 1000
    THEN (IF g.is_double_jeopardy THEN 2000 ELSE 1000)
    ELSE g.player_money

\* range(1000, int(max_bet) + 1000, 1000): the sweep without bet 0
BetRangeFromFirstStep(mb) ==
    [i \in 1..((mb + 999) \div 1000) |-> i * 1000]

\* list(range(0, int(max_bet) + 1000, 1000)), for max_bet >= 0
BetRange(mb) ==
    [i \in 1..((mb + 1000 + 999) \div 1000) |-> (i - 1) * 1000]

\* the sweep without `if bet > max_bet: continue`
BetNeverSkipped(b, mb) == FALSE

\* if bet > max_bet: continue
BetSkipped(b, mb) == b > mb

\* np.mean of the batch's win rates, as the sum of their numerators
AvgWinRate(batch) ==
    SumSeq([i \in DOMAIN batch |-> batch[i].fj_win_rate])

\* results[bet] (Sim.py:188-191)
BatchRecord(batch) ==
    [pre_fj_results |-> batch, avg_fj_win_rate |-> AvgWinRate(batch)]

\* `>=` for `>`: the last of the tied bets is kept
BetterOrEqualBet(avg, best) == avg >= best

\* if avg_fj_win_rate > best_combined_rate
BetterBet(avg, best) == avg > best

RunIdle ==
    /\ max_bet = 0 /\ bet_idx = 0 /\ dd_bet = 0
    /\ sim_results = <<>> /\ results = << >> /\ best_combined_rate = 0
    /\ optimal_bet = 0 /\ report = NoReport

\* Sim.py:170-174
RunSimulations ==
    /\ pc = "rs_call"
    /\ max_bet' = MaxBet(gs)
    /\ results' = << >>
    /\ best_combined_rate' = 0
    /\ optimal_bet' = 0
    /\ bet_idx' = 1
    /\ pc' = "rs_loop"
    /\ UNCHANGED <<gs, wg_args, wg_ret, player, opp1, opp2, clue_in,
                   remaining, clue_out, money_positions, positions,
                   player_wagers, wager_idx, trial, wins, best_win_rate,
                   best_wager, win_rates, opp1_wagers, opp2_wagers,
                   fj_results, dd_bet, sim_results, report>>

\* Sim.py:176-178: a candidate above the ceiling is passed over
BetSkip ==
    /\ pc = "rs_loop"
    /\ bet_idx <= Len(BetRange(max_bet))
    /\ BetSkipped(BetRange(max_bet)[bet_idx], max_bet)
    /\ bet_idx' = bet_idx + 1
    /\ UNCHANGED <<pc, gs, wg_args, wg_ret, player, opp1, opp2, clue_in,
                   remaining, clue_out, money_positions, positions,
                   player_wagers, wager_idx, trial, wins, best_win_rate,
                   best_wager, win_rates, opp1_wagers, opp2_wagers,
                   fj_results, max_bet, dd_bet, sim_results, results,
                   best_combined_rate, optimal_bet, report>>

\* Sim.py:176-180: a candidate's batch begins
BetStart ==
    /\ pc = "rs_loop"
    /\ bet_idx <= Len(BetRange(max_bet))
    /\ ~BetSkipped(BetRange(max_bet)[bet_idx], max_bet)
    /\ sim_results' = <<>>
    /\ pc' = "rs_sims"
    /\ UNCHANGED <<gs, wg_args, wg_ret, player, opp1, opp2, clue_in,
                   remaining, clue_out, money_positions, positions,
                   player_wagers, wager_idx, trial, wins, best_win_rate,
                   best_wager, win_rates, opp1_wagers, opp2_wagers,
                   fj_results, max_bet, bet_idx, dd_bet, results,
                   best_combined_rate, optimal_bet, report>>

\* Sim.py:182-183, 145-154: simulate_game is called, the Daily Double is
\* played and simulate_remaining_clues is called
SimulateGame ==
    /\ pc = "rs_sims"
    /\ Len(sim_results) < NumSims
    /\ dd_bet' = BetRange(max_bet)[bet_idx]
    /\ \E correct \in Draw(gs.dd_probability) :
          player' = AfterDailyDouble(gs.player_money, dd_bet', correct)
    /\ opp1' = gs.opponent1_money
    /\ opp2' = gs.opponent2_money
    /\ clue_in' = [player |-> player', opp1 |-> opp1', opp2 |-> opp2']
    /\ pc' = "clues_call"
    /\ UNCHANGED <<gs, wg_args, wg_ret, remaining, clue_out, money_positions, positions,
                   player_wagers, wager_idx, trial, wins, best_win_rate,
                   best_wager, win_rates, opp1_wagers, opp2_wagers,
                   fj_results, max_bet, bet_idx, sim_results, results,
                   best_combined_rate, optimal_bet, report>>

\* Sim.py:154-159: the totals are taken over and simulate_final_jeopardy is
\* called
SimulateGameFinal ==
    /\ pc = "clues_ret"
    /\ player' = clue_out.player
    /\ opp1' = clue_out.opp1
    /\ opp2' = clue_out.opp2
    /\ clue_in' = NoTotals /\ remaining' = 0 /\ clue_out' = NoTotals
    /\ pc' = "fj_call"
    /\ UNCHANGED <<gs, wg_args, wg_ret, money_positions, positions,
                   player_wagers, wager_idx, trial, wins, best_win_rate,
                   best_wager, win_rates, opp1_wagers, opp2_wagers,
                   fj_results, max_bet, bet_idx, dd_bet, sim_results, results,
                   best_combined_rate, optimal_bet, report>>

\* Sim.py:161-166, 184: simulate_game returns and its result is appended
SimulateGameReturn ==
    /\ pc = "fj_ret"
    /\ sim_results' = Append(sim_results, GameResult)
    /\ player' = 0 /\ opp1' = 0 /\ opp2' = 0 /\ dd_bet' = 0
    /\ money_positions' = <<>> /\ positions' = NoTotals
    /\ player_wagers' = <<>>
    /\ wager_idx' = 0 /\ trial' = 0 /\ wins' = 0
    /\ best_win_rate' = 0 /\ best_wager' = 0 /\ win_rates' = <<>>
    /\ opp1_wagers' = <<>> /\ opp2_wagers' = <<>>
    /\ fj_results' = NoFJResults
    /\ pc' = "rs_sims"
    /\ UNCHANGED <<gs, wg_args, wg_ret, clue_in, remaining, clue_out,
                   max_bet, bet_idx, results, best_combined_rate, optimal_bet,
                   report>>

\* Sim.py:186-195: the batch is averaged and recorded, the best bet updated
BatchEnd ==
    /\ pc = "rs_sims"
    /\ Len(sim_results) = NumSims
    /\ LET bet == BetRange(max_bet)[bet_idx]
           avg_fj_win_rate == AvgWinRate(sim_results)
           better == BetterBet(avg_fj_win_rate, best_combined_rate)
       IN  /\ results' = (bet :> BatchRecord(sim_results)) @@ results
           /\ best_combined_rate' =
                  IF better THEN avg_fj_win_rate ELSE best_combined_rate
           /\ optimal_bet' = IF better THEN bet ELSE optimal_bet
    /\ sim_results' = <<>>
    /\ bet_idx' = bet_idx + 1
    /\ pc' = "rs_loop"
    /\ UNCHANGED <<gs, wg_args, wg_ret, player, opp1, opp2, clue_in,
                   remaining, clue_out, money_positions, positions,
                   player_wagers, wager_idx, trial, wins, best_win_rate,
                   best_wager, win_rates, opp1_wagers, opp2_wagers,
                   fj_results, max_bet, dd_bet, report>>

\* Sim.py:197-201
RunReturn ==
    /\ pc = "rs_loop"
    /\ bet_idx > Len(BetRange(max_bet))
    /\ report' = [optimal_bet |-> optimal_bet,
                  best_win_rate |-> best_combined_rate,
                  detailed_results |-> results]
    /\ pc' = "done"
    /\ UNCHANGED <<gs, wg_args, wg_ret, player, opp1, opp2, clue_in,
                   remaining, clue_out, money_positions, positions,
                   player_wagers, wager_idx, trial, wins, best_win_rate,
                   best_wager, win_rates, opp1_wagers, opp2_wagers,
                   fj_results, max_bet, bet_idx, dd_bet, sim_results, results,
                   best_combined_rate, optimal_bet>>

----------------------------------------------------------------------------
(* get_strategic_wagers called on its own *)

GetStrategicWagers ==
    /\ pc = "gsw_call"
    /\ wg_ret' = get_strategic_wagers(wg_args.money, wg_args.position,
                                      wg_args.leader_money,
                                      wg_args.second_money)
    /\ pc' = "gsw_ret"
    /\ UNCHANGED <<gs, wg_args, player, opp1, opp2, clue_in, remaining,
                   clue_out, money_positions, positions, player_wagers,
                   wager_idx, trial, wins, best_win_rate, best_wager,
                   win_rates, opp1_wagers, opp2_wagers, fj_results, max_bet,
                   bet_idx, dd_bet, sim_results, results, best_combined_rate,
                   optimal_bet, report>>

----------------------------------------------------------------------------
(* Inputs *)

Probabilities == {0, 50, 100}

GameStateOf(pm, o1, o2, rv, dd, cp, fj, f1, f2, dj) ==
    [player_money |-> pm, opponent1_money |-> o1, opponent2_money |-> o2,
     remaining_value |-> rv, dd_probability |-> dd,
     player_clue_probability |-> cp, fj_probability |-> fj,
     opp1_fj_probability |-> f1, opp2_fj_probability |-> f2,
     is_double_jeopardy |-> dj]

\* the form's default totals, with remaining value 0 and every probability 1.0
ScenarioState ==
    GameStateOf(1000, 800, 600, 0, 100, 100, 100, 100, 100, TRUE)

\* GameStates handed to run_simulations: subject below 1000 on either board,
\* at 1000, between the steps of the sweep and at 2000; nothing, less than a
\* clue and more than a clue left on the board; sure, impossible and open
\* outcomes; equal totals
RunGameStates ==
    { ScenarioState,
      GameStateOf(500, 800, 600, 0, 50, 50, 100, 100, 100, FALSE),
      GameStateOf(500, 800, 600, 100, 100, 100, 100, 100, 100, TRUE),
      GameStateOf(1500, 800, 600, 0, 50, 50, 100, 0, 100, TRUE),
      GameStateOf(1000, 800, 600, 200, 100, 100, 100, 100, 100, TRUE),
      GameStateOf(1000, 1000, 1000, 300, 0, 0, 100, 100, 0, TRUE),
      GameStateOf(2000, 800, 600, 200, 0, 50, 100, 100, 100, TRUE),
      GameStateOf(0, 0, 0, 100, 50, 50, 50, 50, 50, FALSE) }

WagersIdle == wg_args = None /\ wg_ret = None
TotalsIdle == player = 0 /\ opp1 = 0 /\ opp2 = 0

\* run_simulations is about to be called on a GameState
Init ==
    /\ pc = "rs_call"
    /\ gs \in RunGameStates
    /\ WagersIdle /\ TotalsIdle /\ CluesIdle /\ FJIdle /\ RunIdle

Next ==
    \/ RunSimulations
    \/ BetSkip
    \/ BetStart
    \/ SimulateGame
    \/ CluesEnter
    \/ ClueStep
    \/ CluesReturn
    \/ SimulateGameFinal
    \/ FJEnter
    \/ FJTrial
    \/ FJEndWager
    \/ SimulateGameReturn
    \/ BatchEnd
    \/ RunReturn

Spec == Init /\ [][Next]_vars

----------------------------------------------------------------------------
(* get_strategic_wagers on its own *)

WagerMoneys == (0..MaxMoney) \cup {500, 1000}

Positions == {"leader", "second", "third"}

InitWagers ==
    /\ pc = "gsw_call"
    /\ wg_args \in [money : WagerMoneys, position : Positions,
                    leader_money : WagerMoneys, second_money : WagerMoneys]
    /\ wg_ret = None
    /\ gs = None
    /\ TotalsIdle /\ CluesIdle /\ FJIdle /\ RunIdle

NextWagers == GetStrategicWagers

SpecWagers == InitWagers /\ [][NextWagers]_vars

----------------------------------------------------------------------------
(* simulate_remaining_clues on its own *)

Remainings == {50 * k : k \in 0..MaxRemainingSteps}

InitClues ==
    /\ pc = "clues_call"
    /\ \E rv \in Remainings, cp \in Probabilities :
          gs = GameStateOf(1000, 800, 600, rv, 50, cp, 50, 50, 50, TRUE)
    /\ clue_in \in [player : {-1000, 0, 1000}, opp1 : {800}, opp2 : {0, 600}]
    /\ remaining = 0 /\ clue_out = NoTotals
    /\ WagersIdle /\ TotalsIdle /\ FJIdle /\ RunIdle

NextClues ==
    \/ CluesEnter
    \/ ClueStep
    \/ CluesReturn

SpecClues == InitClues /\ [][NextClues]_vars

----------------------------------------------------------------------------
(* simulate_final_jeopardy on its own *)

\* the terminal-round probabilities of subject, rival 1, rival 2
FJProbabilities ==
    {<<50, 50, 50>>, <<100, 100, 100>>, <<0, 100, 100>>, <<100, 0, 50>>}

InitFinal ==
    /\ pc = "fj_call"
    /\ \E pr \in FJProbabilities :
          gs = GameStateOf(1000, 800, 600, 0, 50, 50, pr[1], pr[2], pr[3], TRUE)
    /\ player \in {-500, 0, 800, 2000}
    /\ opp1 \in {0, 800}
    /\ opp2 \in {600, 800}
    /\ WagersIdle /\ CluesIdle /\ FJIdle /\ RunIdle

NextFinal ==
    \/ FJEnter
    \/ FJTrial
    \/ FJEndWagerTraced

SpecFinal == InitFinal /\ [][NextFinal]_vars

----------------------------------------------------------------------------
(* Notions the properties are stated in *)

\* strictly ascending: sorted, and no value twice
StrictlyAscending(s) == \A i, j \in DOMAIN s : i < j => s[i] < s[j]

SetMax(S) == CHOOSE x \in S : \A y \in S : x >= y

TotalOf(name) ==
    IF name = "player" THEN player ELSE IF name = "opp1" THEN opp1 ELSE opp2

InputOrder(name) == CHOOSE i \in DOMAIN Players : Players[i] = name

\* the number of players ranked before `name`: those with more money, and
\* those with the same money that come earlier in the input
RankOf(name) ==
    Cardinality({other \in Range(Players) :
        \/ TotalOf(other) > TotalOf(name)
        \/ /\ TotalOf(other) = TotalOf(name)
           /\ InputOrder(other) < InputOrder(name)})

TotalAtRank(r) == TotalOf(CHOOSE name \in Range(Players) : RankOf(name) = r)

Label(r) == IF r = 0 THEN "leader" ELSE IF r = 1 THEN "second" ELSE "third"

\* the WagerSet of a player: own money, own rank, the totals ranked first
\* and second
OwnWagerSet(name) ==
    WagerSet(TotalOf(name), Label(RankOf(name)), TotalAtRank(0),
             TotalAtRank(1))

\* the ceiling as the specification states it
StatedCeiling(g) ==
    IF g.player_money < 1000
    THEN (IF g.is_double_jeopardy THEN 2000 ELSE 1000)
    ELSE g.player_money

\* the multiples of 1000 from 0 up to the ceiling
MultiplesUpTo(ceiling) == {b \in 0..ceiling : b % 1000 = 0}

InGame == pc \in {"clues_call", "clues", "clues_ret", "fj_call", "fj_trials",
                  "fj_ret"}

InFinal == pc \in {"fj_trials", "fj_ret"}

\* the highest win rate among the candidates, and the first candidate with it
MaxRate == SetMax(Range(win_rates))
FirstBest == SetMin({i \in DOMAIN win_rates : win_rates[i] = MaxRate})

\* what is returned is the first candidate with the highest win rate, that
\* is the lowest wager with it, and its win rate
ReturnsFirstBest ==
    /\ fj_results.optimal_fj_wager = player_wagers[FirstBest]
    /\ fj_results.fj_win_rate = win_rates[FirstBest]
    /\ \A j \in DOMAIN win_rates :
          win_rates[j] = MaxRate => player_wagers[FirstBest] <= player_wagers[j]

----------------------------------------------------------------------------
(* Properties *)

\* C1: for money >= 0 and every position and rival totals, the returned list
\* holds 0 and money, is sorted ascending without duplicates, and holds no
\* value above money or below 0.
C1_WagerListWellFormed ==
    pc = "gsw_ret" =>
        /\ 0 \in Range(wg_ret)
        /\ wg_args.money \in Range(wg_ret)
        /\ StrictlyAscending(wg_ret)
        /\ \A w \in Range(wg_ret) : 0 <= w /\ w <= wg_args.money

\* C2 as stated: when simulate_remaining_clues returns, the three players'
\* gains add up to the initial remaining value exactly.
C2_Conservation ==
    pc = "clues_ret" =>
        (clue_out.player - clue_in.player) + (clue_out.opp1 - clue_in.opp1)
        + (clue_out.opp2 - clue_in.opp2) = gs.remaining_value

\* C2 as amended: the gains add up to the initial remaining value less what
\* is left on the board, and what is left is at least 0 and below 200.
C2_ConservationUpToResidue ==
    pc = "clues_ret" =>
        /\ (clue_out.player - clue_in.player) + (clue_out.opp1 - clue_in.opp1)
           + (clue_out.opp2 - clue_in.opp2) = gs.remaining_value - remaining
        /\ 0 <= remaining
        /\ remaining < 200

C2_Witness ==
    /\ pc = "clues_ret"
    /\ gs.remaining_value >= 200
    /\ remaining > 0
    /\ clue_out.opp2 > clue_in.opp2

\* C3 as stated: the ceiling itself is a key of detailed_results.
C3_CeilingEvaluated ==
    pc = "done" => StatedCeiling(gs) \in DOMAIN report.detailed_results

\* C3 as amended: the keys of detailed_results are exactly the multiples of
\* 1000 from 0 up to the ceiling, so the ceiling is a key exactly when it is
\* a multiple of 1000.
C3_MultiplesEvaluated ==
    pc = "done" =>
        /\ DOMAIN report.detailed_results = MultiplesUpTo(StatedCeiling(gs))
        /\ (StatedCeiling(gs) \in DOMAIN report.detailed_results
            <=> StatedCeiling(gs) % 1000 = 0)

C3_Witness ==
    /\ pc = "done"
    /\ StatedCeiling(gs) % 1000 # 0
    /\ Cardinality(DOMAIN report.detailed_results) = 2

\* C4: the optimal bet returned is a key of detailed_results and does not
\* exceed the ceiling.
C4_OptimalBetIsCandidate ==
    pc = "done" =>
        /\ report.optimal_bet \in DOMAIN report.detailed_results
        /\ report.optimal_bet <= StatedCeiling(gs)

C4_Witness ==
    /\ pc = "done"
    /\ report.optimal_bet = StatedCeiling(gs)
    /\ report.optimal_bet > 0

\* C5: simulate_final_jeopardy returns a win rate in [0, 1] and a wager of
\* the subject's own WagerSet, also for a negative subject total.
C5_RateAndWagerInRange ==
    pc = "fj_ret" =>
        /\ 0 <= fj_results.fj_win_rate
        /\ fj_results.fj_win_rate <= TotalSims
        /\ fj_results.optimal_fj_wager \in OwnWagerSet("player")

C5_Witness ==
    /\ pc = "fj_ret"
    /\ player < 0
    /\ fj_results.optimal_fj_wager \in OwnWagerSet("player")

\* C6: on the scenario (1000, 800, 600, nothing left on the board, every
\* probability 1.0) the subject's pre-terminal total for bet 0 is 1000 and
\* run_simulations returns optimal_bet 0 with best_win_rate 1.0.
C6_Scenario ==
    gs = ScenarioState =>
        /\ (pc = "fj_ret" /\ dd_bet = 0 => player = 1000)
        /\ (pc = "done" =>
               /\ report.optimal_bet = 0
               /\ report.best_win_rate = NumSims * TotalSims)

C6_Witness ==
    /\ gs = ScenarioState
    /\ pc = "done"
    /\ DOMAIN report.detailed_results = {0, 1000}

\* the report is full: an entry for every enumerated bet, each with
\* num_simulations trial results and an average win rate
FullReport ==
    /\ DOMAIN report.detailed_results = MultiplesUpTo(StatedCeiling(gs))
    /\ DOMAIN report.detailed_results # {}
    /\ \A b \in DOMAIN report.detailed_results :
          /\ Len(report.detailed_results[b].pre_fj_results) = NumSims
          /\ report.detailed_results[b].avg_fj_win_rate
                \in 0..(NumSims * TotalSims)

\* What is left to do, most significant first.
\* the call itself
LeftCall == IF pc = "rs_call" THEN 1 ELSE 0
\* the bets of the sweep
LeftBets ==
    IF pc \in {"rs_call", "done"} THEN 0
    ELSE Len(BetRange(max_bet)) + 2 - bet_idx
\* the trials of the batch
LeftGames ==
    IF pc = "rs_loop" THEN NumSims + 1
    ELSE IF pc = "rs_sims" \/ InGame THEN NumSims - Len(sim_results)
    ELSE 0
\* the phases of the trial
LeftPhases ==
    CASE pc = "rs_sims" -> 6
      [] pc = "clues_call" -> 5
      [] pc = "clues" -> 4
      [] pc = "clues_ret" -> 3
      [] pc = "fj_call" -> 2
      [] pc = "fj_trials" -> 1
      [] OTHER -> 0
\* the value on the board
LeftBoard == IF pc = "clues" THEN remaining ELSE 0
\* the candidate wagers
LeftWagers == IF pc = "fj_trials" THEN Len(player_wagers) - wager_idx ELSE 0
\* the trials of the candidate
LeftTrials == IF pc = "fj_trials" THEN TotalSims - trial ELSE 0

\* none of them is negative
VariantWellFounded ==
    /\ LeftCall >= 0 /\ LeftBets >= 0 /\ LeftGames >= 0 /\ LeftPhases >= 0
    /\ LeftBoard >= 0 /\ LeftWagers >= 0 /\ LeftTrials >= 0

\* the step takes them down in the lexicographic order
VariantDecreases ==
    IF LeftCall' # LeftCall THEN LeftCall' < LeftCall
    ELSE IF LeftBets' # LeftBets THEN LeftBets' < LeftBets
    ELSE IF LeftGames' # LeftGames THEN LeftGames' < LeftGames
    ELSE IF LeftPhases' # LeftPhases THEN LeftPhases' < LeftPhases
    ELSE IF LeftBoard' # LeftBoard THEN LeftBoard' < LeftBoard
    ELSE IF LeftWagers' # LeftWagers THEN LeftWagers' < LeftWagers
    ELSE LeftTrials' < LeftTrials

\* C7: run_simulations terminates and returns a full report: until it has
\* returned a step can be taken, every step takes what is left to do down in
\* a well-founded order (so every loop finishes), and what is returned is a
\* full report.
C7_TerminatesWithFullReport ==
    /\ [](pc # "done" => ENABLED Next)
    /\ []VariantWellFounded
    /\ [][VariantDecreases]_vars
    /\ [](pc = "done" => FullReport)

C7_Witness ==
    /\ pc = "done"
    /\ FullReport
    /\ gs.remaining_value > 0
    /\ Cardinality(DOMAIN report.detailed_results) = 3

\* C8 as stated: the returned wager is the candidate with the highest win
\* rate, the lowest one among those tied for it, and the returned win rate
\* is that candidate's.
C8_FirstBestReturned == pc = "fj_ret" => ReturnsFirstBest

\* C8 as amended: so it is when some candidate has a positive win rate; when
\* every candidate's win rate is 0, wager 0 and win rate 0 are returned.
C8_FirstBestOrZero ==
    pc = "fj_ret" =>
        IF MaxRate > 0 THEN ReturnsFirstBest
        ELSE /\ fj_results.optimal_fj_wager = 0
             /\ fj_results.fj_win_rate = 0

C8_Witness ==
    /\ pc = "fj_ret"
    /\ MaxRate > 0
    /\ \E i, j \in DOMAIN win_rates :
          i < j /\ i = FirstBest /\ win_rates[j] = MaxRate
    /\ fj_results.optimal_fj_wager = player_wagers[FirstBest]

\* C9: each player gets one distinct position by descending total, ties
\* broken by input order, and every player's wager set is computed with the
\* player's own rank and the totals ranked first and second.
C9_StableRanking ==
    InFinal =>
        /\ \A name \in Range(Players) : positions[name] = RankOf(name)
        /\ {positions[name] : name \in Range(Players)} = 0..2
        /\ Range(player_wagers) = OwnWagerSet("player")
        /\ opp1_wagers # <<>> => Range(opp1_wagers) = OwnWagerSet("opp1")
        /\ opp2_wagers # <<>> => Range(opp2_wagers) = OwnWagerSet("opp2")

C9_Witness ==
    /\ pc = "fj_ret"
    /\ player = opp2
    /\ opp1 < player
    /\ positions = [player |-> 0, opp1 |-> 2, opp2 |-> 1]
    /\ opp2_wagers # <<>>

\* C10: with starting money >= 1000 every bet is at most the money and the
\* subject's total stays >= 0 through the bonus round and the scoring phase,
\* so a negative pre-terminal total needs starting money below 1000; the
\* rivals' totals are never below their starting values.
C10_TotalsBounded ==
    InGame =>
        /\ gs.player_money >= 1000 =>
              /\ dd_bet <= gs.player_money
              /\ player >= 0
        /\ player < 0 => gs.player_money < 1000
        /\ opp1 >= gs.opponent1_money
        /\ opp2 >= gs.opponent2_money

C10_Witness ==
    /\ pc = "fj_ret"
    /\ gs.player_money >= 1000
    /\ dd_bet = gs.player_money
    /\ player = 0
    /\ opp1 > gs.opponent1_money

\* a negative pre-terminal total, and a wager list built from it, is reached
\* from starting money below 1000
C10_NegativeReached ==
    /\ pc = "fj_ret"
    /\ gs.player_money < 1000
    /\ player < 0
    /\ \E i \in DOMAIN player_wagers : player_wagers[i] < 0

====
